---- MODULE Spec2Model ----
(***************************************************************************)
(* NDFileNetCDF: the netCDF file writer of areaDetector (ADCore).          *)
(* One NDFileNetCDF object (the session) with its members ncId,            *)
(* nextRecord, uniqueIdId, timeStampId, arrayDataId and pAttributeId, the  *)
(* three handlers openFile, writeFile and closeFile, and the part of the   *)
(* netCDF library the handlers call: the table of open files, each with    *)
(* its dimensions, global attributes, variables and record data.           *)
(***************************************************************************)
EXTENDS Integers, Sequences, FiniteSets, TLC

VARIABLES
    ncId,          \* this->ncId: handle stored by nc_create
    nextRecord,    \* this->nextRecord: the write cursor
    uniqueIdId,    \* this->uniqueIdId
    timeStampId,   \* this->timeStampId
    arrayDataId,   \* this->arrayDataId
    pAttributeId,  \* this->pAttributeId: [null, ids]
    nc,            \* the netCDF library's open files: ncid -> file
    source,        \* the frame source feeding this session (fixed per run)
    faults,        \* library calls that failed for an outside reason so far
    lastOp,        \* the handler that ran last: "none", "open", "write", "close"
    status,        \* what it returned
    calls          \* the library calls it made, in order, with their results

vars == <<ncId, nextRecord, uniqueIdId, timeStampId, arrayDataId, pAttributeId,
          nc, source, faults, lastOp, status, calls>>

-----------------------------------------------------------------------------
(* Bounds of the model. *)

\* writeFile is not called once the cursor has reached MaxRecords
MaxRecords == 2
\* the library's table of open files is full at MaxOpenFiles (nc_create fails)
MaxOpenFiles == 2
\* at most MaxFaults library calls fail for a reason outside the program
MaxFaults == 1

-----------------------------------------------------------------------------
(* Program constants. *)

MAX_ATTRIBUTE_STRING_SIZE == 256

asynSuccess == "asynSuccess"
asynError == "asynError"

NC_NOERR == "NC_NOERR"
\* NC_UNLIMITED is 0L in netcdf.h: a dimension of length 0 is the record dimension
NC_UNLIMITED == 0
\* the value of a cell of a numeric variable that was never written
NC_FILL == -32767

\* bits of NDFileOpenMode_t, as the set of the bits that are set
NDFileModeRead == "NDFileModeRead"
NDFileModeWrite == "NDFileModeWrite"
NDFileModeAppend == "NDFileModeAppend"
NDFileModeMultiple == "NDFileModeMultiple"
AccessBits == {NDFileModeRead, NDFileModeWrite, NDFileModeAppend}
\* the open modes the callers pass: at least one access bit, NDFileModeMultiple or not
OpenModes ==
    {m \in SUBSET (AccessBits \cup {NDFileModeMultiple}) : m \cap AccessBits # {}}

NDDataTypes == {"NDInt8", "NDUInt8", "NDInt16", "NDUInt16", "NDInt32", "NDUInt32",
                "NDFloat32", "NDFloat64"}
NDAttrDataTypes == {"NDAttrInt8", "NDAttrUInt8", "NDAttrInt16", "NDAttrUInt16",
                    "NDAttrInt32", "NDAttrUInt32", "NDAttrFloat32", "NDAttrFloat64",
                    "NDAttrString", "NDAttrUndefined"}

-----------------------------------------------------------------------------
(* Helpers on sequences and integers. *)

RECURSIVE Prod(_)
Prod(s) == IF s = <<>> THEN 1 ELSE Head(s) * Prod(Tail(s))

Max(a, b) == IF a >= b THEN a ELSE b

RECURSIVE Pow2(_)
Pow2(n) == IF n = 0 THEN 1 ELSE 2 * Pow2(n - 1)

\* the row-major position (from 1) of the cell with coordinates c (from 0)
\* in an array with axis lengths ax
RECURSIVE FlatIndex(_, _)
FlatIndex(c, ax) ==
    IF c = <<>> THEN 1
    ELSE Head(c) * Prod(Tail(ax)) + FlatIndex(Tail(c), Tail(ax))

\* the coordinates (from 0) of row-major position k (from 1)
RECURSIVE Coord(_, _)
Coord(k, ax) ==
    IF ax = <<>> THEN <<>>
    ELSE LET p == Prod(Tail(ax))
         IN <<(k - 1) \div p>> \o Coord(((k - 1) % p) + 1, Tail(ax))

-----------------------------------------------------------------------------
(* The netCDF library, as far as openFile, writeFile and closeFile use it. *)
(* A file is [path, defmode, dims, gatts, vars, numrecs, data]:            *)
(*   dims    <<[name, len]>>, dimension id = position - 1                  *)
(*   gatts   <<[name, xtype, val]>>, the global attributes                 *)
(*   vars    <<[name, xtype, dimids]>>, variable id = position - 1         *)
(*   data    per variable, the sequence of its records; a record is the    *)
(*           row-major sequence of its cells (for a text variable, the     *)
(*           characters written so far, the rest being unwritten).         *)
(* Every operation gives [rc, nc, id]: the return code, the table of open  *)
(* files after the call, and the id it hands back.                         *)

XTypes == {"NC_BYTE", "NC_CHAR", "NC_SHORT", "NC_INT", "NC_FLOAT", "NC_DOUBLE"}

\* the least ncid not in use
FreeId(tab) == CHOOSE i \in 0..Cardinality(DOMAIN tab) : i \notin DOMAIN tab

NewFile(path) ==
    [path |-> path, defmode |-> TRUE, dims |-> <<>>, gatts |-> <<>>,
     vars |-> <<>>, numrecs |-> 0, data |-> <<>>]

nc_create(tab, path) ==
    IF Cardinality(DOMAIN tab) >= MaxOpenFiles
    THEN [rc |-> "NC_ENFILE", nc |-> tab, id |-> -1]
    ELSE LET id == FreeId(tab)
         IN [rc |-> NC_NOERR, nc |-> tab @@ (id :> NewFile(path)), id |-> id]

HasName(seq, name) == \E i \in 1..Len(seq) : seq[i].name = name

nc_put_att(tab, ncid, name, xtype, val) ==
    IF ncid \notin DOMAIN tab THEN [rc |-> "NC_EBADID", nc |-> tab, id |-> -1]
    ELSE IF ~tab[ncid].defmode /\ ~HasName(tab[ncid].gatts, name)
    THEN [rc |-> "NC_ENOTINDEFINE", nc |-> tab, id |-> -1]
    ELSE LET f == tab[ncid]
             att == [name |-> name, xtype |-> xtype, val |-> val]
             g == IF HasName(f.gatts, name)
                  THEN [i \in 1..Len(f.gatts) |->
                          IF f.gatts[i].name = name THEN att ELSE f.gatts[i]]
                  ELSE Append(f.gatts, att)
         IN [rc |-> NC_NOERR, nc |-> [tab EXCEPT ![ncid].gatts = g], id |-> -1]

nc_def_dim(tab, ncid, name, len) ==
    IF ncid \notin DOMAIN tab THEN [rc |-> "NC_EBADID", nc |-> tab, id |-> -1]
    ELSE IF ~tab[ncid].defmode THEN [rc |-> "NC_ENOTINDEFINE", nc |-> tab, id |-> -1]
    ELSE IF len < 0 THEN [rc |-> "NC_EINVAL", nc |-> tab, id |-> -1]
    ELSE IF len = NC_UNLIMITED
            /\ \E i \in 1..Len(tab[ncid].dims) : tab[ncid].dims[i].len = NC_UNLIMITED
    THEN [rc |-> "NC_EUNLIMIT", nc |-> tab, id |-> -1]
    ELSE IF HasName(tab[ncid].dims, name)
    THEN [rc |-> "NC_ENAMEINUSE", nc |-> tab, id |-> -1]
    ELSE [rc |-> NC_NOERR,
          nc |-> [tab EXCEPT ![ncid].dims = Append(@, [name |-> name, len |-> len])],
          id |-> Len(tab[ncid].dims)]

nc_def_var(tab, ncid, name, xtype, ndims, dimids) ==
    IF ncid \notin DOMAIN tab THEN [rc |-> "NC_EBADID", nc |-> tab, id |-> -1]
    ELSE IF ~tab[ncid].defmode THEN [rc |-> "NC_ENOTINDEFINE", nc |-> tab, id |-> -1]
    ELSE IF xtype \notin XTypes THEN [rc |-> "NC_EBADTYPE", nc |-> tab, id |-> -1]
    ELSE IF \E i \in 1..ndims : dimids[i] \notin 0..(Len(tab[ncid].dims) - 1)
    THEN [rc |-> "NC_EBADDIM", nc |-> tab, id |-> -1]
    ELSE IF \E i \in 2..ndims : tab[ncid].dims[dimids[i] + 1].len = NC_UNLIMITED
    THEN [rc |-> "NC_EUNLIMPOS", nc |-> tab, id |-> -1]
    ELSE IF HasName(tab[ncid].vars, name)
    THEN [rc |-> "NC_ENAMEINUSE", nc |-> tab, id |-> -1]
    ELSE [rc |-> NC_NOERR,
          nc |-> [tab EXCEPT
                    ![ncid].vars = Append(@, [name |-> name, xtype |-> xtype,
                                              dimids |-> SubSeq(dimids, 1, ndims)]),
                    ![ncid].data = Append(@, <<>>)],
          id |-> Len(tab[ncid].vars)]

\* the axis lengths of variable v (position in f.vars) of file f
AxisLens(f, v) ==
    [i \in 1..Len(f.vars[v].dimids) |-> f.dims[f.vars[v].dimids[i] + 1].len]

IsRecordVar(f, v) ==
    Len(f.vars[v].dimids) > 0 /\ AxisLens(f, v)[1] = NC_UNLIMITED

\* the cells of one record of variable v
RecordShape(f, v) ==
    IF Len(f.vars[v].dimids) = 0 THEN <<>> ELSE Tail(AxisLens(f, v))

\* one record nobody wrote: fill values; a text record has no character yet
EmptyRecord(f, v) ==
    IF f.vars[v].xtype = "NC_CHAR" THEN <<>>
    ELSE [k \in 1..Prod(RecordShape(f, v)) |-> NC_FILL]

\* a variable on a fixed leading axis has all its records from the start
nc_enddef(tab, ncid) ==
    IF ncid \notin DOMAIN tab THEN [rc |-> "NC_EBADID", nc |-> tab, id |-> -1]
    ELSE IF ~tab[ncid].defmode THEN [rc |-> "NC_ENOTINDEFINE", nc |-> tab, id |-> -1]
    ELSE LET f == tab[ncid]
             d == [v \in 1..Len(f.vars) |->
                     IF IsRecordVar(f, v) \/ Len(f.vars[v].dimids) = 0 THEN <<>>
                     ELSE [r \in 1..AxisLens(f, v)[1] |-> EmptyRecord(f, v)]]
         IN [rc |-> NC_NOERR,
             nc |-> [tab EXCEPT ![ncid].defmode = FALSE, ![ncid].data = d],
             id |-> -1]

\* nc_close ends define mode if need be, writes the file out and frees the id
nc_close(tab, ncid) ==
    IF ncid \notin DOMAIN tab THEN [rc |-> "NC_EBADID", nc |-> tab, id |-> -1]
    ELSE [rc |-> NC_NOERR,
          nc |-> [i \in DOMAIN tab \ {ncid} |-> tab[i]],
          id |-> -1]

\* the value a cell of external type xtype holds after v was stored into it:
\* v itself when it fits, else its low-order bits (and the call reports NC_ERANGE)
Fits(v, xtype) ==
    CASE xtype = "NC_BYTE" -> v \in -128..127
      [] xtype = "NC_SHORT" -> v \in -32768..32767
      [] OTHER -> TRUE

Wrap(v, bits) ==
    LET m == v % Pow2(bits)
    IN IF m >= Pow2(bits - 1) THEN m - Pow2(bits) ELSE m

Stored(v, xtype) ==
    CASE xtype = "NC_BYTE" -> Wrap(v, 8)
      [] xtype = "NC_SHORT" -> Wrap(v, 16)
      [] OTHER -> v

NUL == "NUL"

\* element i (from 1) of a C array the program filled up to Len(a): what lies
\* beyond was never initialised and reads as junk
At(a, i, junk) == IF i \in 1..Len(a) THEN a[i] ELSE junk

\* cell k of a stored record
Cell(rec, k, xtype) ==
    IF k \in 1..Len(rec) THEN rec[k]
    ELSE IF xtype = "NC_CHAR" THEN NUL ELSE NC_FILL

\* record rec of a variable with cells of shape shp after the slab at st of
\* extent cnt (both over the record's axes) took its values from mem, which is
\* laid out row-major over cnt from position base + 1
PutRecord(rec, shp, xtype, st, cnt, mem, base, junk) ==
    LET inSlab(c) == \A i \in 1..Len(shp) : c[i] >= st[i] /\ c[i] < st[i] + cnt[i]
        rel(c) == [i \in 1..Len(shp) |-> c[i] - st[i]]
        len == IF xtype = "NC_CHAR"
               THEN Max(Len(rec), IF Prod(cnt) = 0 THEN 0
                                  ELSE FlatIndex([i \in 1..Len(shp) |-> st[i] + cnt[i] - 1], shp))
               ELSE Prod(shp)
    IN [k \in 1..len |->
          LET c == Coord(k, shp)
          IN IF inSlab(c)
             THEN LET m == At(mem, base + FlatIndex(rel(c), cnt), junk)
                  IN IF xtype = "NC_CHAR" THEN m ELSE Stored(m, xtype)
             ELSE Cell(rec, k, xtype)]

\* nc_put_vara_<memtype>(ncid, varid, start, count, mem): the library reads one
\* start and one count per axis of the variable
nc_put_vara(tab, ncid, varid, start, count, mem, memtype, junk) ==
    IF ncid \notin DOMAIN tab THEN [rc |-> "NC_EBADID", nc |-> tab, id |-> -1]
    ELSE IF tab[ncid].defmode THEN [rc |-> "NC_EINDEFINE", nc |-> tab, id |-> -1]
    ELSE IF varid \notin 0..(Len(tab[ncid].vars) - 1)
    THEN [rc |-> "NC_ENOTVAR", nc |-> tab, id |-> -1]
    ELSE
    LET f == tab[ncid]
        v == varid + 1
        xtype == f.vars[v].xtype
        ax == AxisLens(f, v)
        nd == Len(ax)
        st == [i \in 1..nd |-> At(start, i, junk)]
        cnt == [i \in 1..nd |-> At(count, i, junk)]
        isrec == IsRecordVar(f, v)
        fixed == {i \in 1..nd : ~(i = 1 /\ isrec)}
    IN
    IF (xtype = "NC_CHAR") # (memtype = "text")
    THEN [rc |-> "NC_ECHAR", nc |-> tab, id |-> -1]
    ELSE IF \E i \in fixed : st[i] > ax[i] \/ (st[i] = ax[i] /\ cnt[i] > 0)
    THEN [rc |-> "NC_EINVALCOORDS", nc |-> tab, id |-> -1]
    ELSE IF \E i \in fixed : st[i] + cnt[i] > ax[i]
    THEN [rc |-> "NC_EEDGE", nc |-> tab, id |-> -1]
    ELSE IF Prod(cnt) = 0 THEN [rc |-> NC_NOERR, nc |-> tab, id |-> -1]
    ELSE
    LET shp == Tail(ax)
        per == Prod(Tail(cnt))
        nrec == IF isrec THEN Max(f.numrecs, st[1] + cnt[1]) ELSE f.numrecs
        \* a record variable has a record for every record of the file
        grown == [w \in 1..Len(f.vars) |->
                    IF IsRecordVar(f, w)
                    THEN [r \in 1..nrec |->
                            IF r <= Len(f.data[w]) THEN f.data[w][r]
                            ELSE EmptyRecord(f, w)]
                    ELSE f.data[w]]
        new == [r \in 1..Len(grown[v]) |->
                  IF r - 1 >= st[1] /\ r - 1 < st[1] + cnt[1]
                  THEN PutRecord(grown[v][r], shp, xtype, Tail(st), Tail(cnt), mem,
                                 (r - 1 - st[1]) * per, junk)
                  ELSE grown[v][r]]
        range == \E k \in 1..(cnt[1] * per) :
                    xtype # "NC_CHAR" /\ ~Fits(At(mem, k, junk), xtype)
    IN [rc |-> IF range THEN "NC_ERANGE" ELSE NC_NOERR,
        nc |-> [tab EXCEPT ![ncid].numrecs = nrec,
                           ![ncid].data = [grown EXCEPT ![v] = new]],
        id |-> -1]

-----------------------------------------------------------------------------
(* NDArray frames and their attributes. *)

Min(a, b) == IF a <= b THEN a ELSE b

\* NDAttribute: name, description, data type and value (a number, or the
\* characters of a string)
Attr(name, dataType, value) ==
    [name |-> name, description |-> <<"d", name>>, dataType |-> dataType, value |-> value]

\* element k of the data buffer of frame uid of element type dataType; the
\* unsigned 8 and 16 bit types take values with the top bit set
DataVal(dataType, uid, k) ==
    CASE dataType = "NDInt8" -> 0 - (uid * 30 + k)
      [] dataType = "NDUInt8" -> 160 + uid * 30 + k
      [] dataType = "NDInt16" -> 0 - (uid * 300 + k)
      [] dataType = "NDUInt16" -> 40000 + uid * 300 + k
      [] dataType = "NDInt32" -> 0 - (uid * 70000 + k)
      [] dataType = "NDUInt32" -> uid * 70000 + k
      [] dataType = "NDFloat32" -> uid * 1000 + k
      [] OTHER -> uid * 2000 + k

\* NDArray: dims[i] = {size, offset, binning, reverse} in the frame's own order
Frame(dataType, sizes, uid, attrs) ==
    [dataType |-> dataType,
     ndims |-> Len(sizes),
     dims |-> [i \in 1..Len(sizes) |->
                 [size |-> sizes[i], offset |-> 10 * i, binning |-> i, reverse |-> i % 2]],
     uniqueId |-> uid,
     timeStamp |-> 100 + uid,
     pData |-> [k \in 1..Prod(sizes) |-> DataVal(dataType, uid, k)],
     attributes |-> attrs]

\* the attribute type paired with each element type in the frame sources below
\* (never the type of the same name, so that the two mappings show apart)
AttrTypeWith(dataType) ==
    CASE dataType = "NDInt8" -> "NDAttrFloat64"
      [] dataType = "NDUInt8" -> "NDAttrInt16"
      [] dataType = "NDInt16" -> "NDAttrUInt32"
      [] dataType = "NDUInt16" -> "NDAttrInt8"
      [] dataType = "NDInt32" -> "NDAttrFloat32"
      [] dataType = "NDUInt32" -> "NDAttrUInt8"
      [] dataType = "NDFloat32" -> "NDAttrUInt16"
      [] OTHER -> "NDAttrInt32"

\* the frame sources: what the driver upstream delivers during one run
Sources == NDDataTypes \cup {"shapes", "ndims", "attrs", "nattrs", "strings", "mixed", "undefined"}

Frames(src) ==
    CASE src \in NDDataTypes ->
           {Frame(src, <<2, 3>>, u, <<Attr("A", AttrTypeWith(src), 200 + u)>>) :
              u \in IF src = "NDUInt8" THEN {1, 2} ELSE {1}}
      [] src = "shapes" ->
           {Frame("NDUInt8", <<2, 3, 4>>, 1, <<>>),
            Frame("NDUInt8", <<1, 3, 4>>, 2, <<>>)}
      [] src = "ndims" ->
           {Frame("NDInt16", <<2, 3>>, 1, <<>>),
            Frame("NDInt16", <<2>>, 2, <<>>)}
      [] src = "attrs" ->
           {Frame("NDInt16", <<2>>, 1, <<Attr("A", "NDAttrInt32", 5), Attr("B", "NDAttrFloat64", 6)>>),
            Frame("NDInt16", <<2>>, 2, <<Attr("B", "NDAttrFloat64", 8), Attr("A", "NDAttrInt32", 7)>>)}
      [] src = "nattrs" ->
           {Frame("NDInt16", <<2>>, 1, <<Attr("A", "NDAttrInt32", 5)>>),
            Frame("NDInt16", <<2>>, 2, <<Attr("A", "NDAttrInt32", 7), Attr("B", "NDAttrInt32", 8)>>)}
      [] src = "strings" ->
           {Frame("NDFloat32", <<2>>, 1, <<Attr("S", "NDAttrString", <<"a", "b", "c">>),
                                            Attr("N", "NDAttrInt32", 1)>>),
            Frame("NDFloat32", <<2>>, 2, <<Attr("S", "NDAttrString", <<"x">>),
                                            Attr("N", "NDAttrInt32", 2)>>)}
      [] src = "mixed" ->
           {Frame("NDFloat32", <<2>>, 1, <<Attr("S", "NDAttrString", <<"a", "b">>)>>),
            Frame("NDFloat32", <<2>>, 2, <<Attr("S", "NDAttrInt8", 6)>>)}
      [] OTHER ->
           {Frame("NDInt32", <<2>>, 1, <<Attr("A", "NDAttrInt32", 5)>>),
            Frame("NDInt32", <<2>>, 2, <<Attr("A", "NDAttrUndefined", 0)>>)}

FileNames == {"f.nc"}

\* what an uninitialised int or size_t, or a read past the end of an array, gives
Junk == {0, 7}

-----------------------------------------------------------------------------
(* Running a handler.  st holds the members of the object, the library's    *)
(* table, the handler's locals and its progress: ret is "running" until the *)
(* handler returns.  fault is the number of the library call of this        *)
(* invocation that fails for an outside reason (0: none does).              *)

Start(fault) ==
    [ncId |-> ncId, nextRecord |-> nextRecord, uniqueIdId |-> uniqueIdId,
     timeStampId |-> timeStampId, arrayDataId |-> arrayDataId,
     pAttributeId |-> pAttributeId, nc |-> nc,
     dimIds |-> <<>>, stringDimIds |-> <<>>, ncType |-> "NC_NAT",
     start |-> <<>>, count |-> <<>>,
     retval |-> NC_NOERR, out |-> -1, fault |-> fault, ncalls |-> 0,
     calls |-> <<>>, ret |-> "running"]

\* one library call: r is what the library answers; the call is logged
Lib(st, fn, name, varid, start, count, r) ==
    LET hit == st.ncalls + 1 = st.fault
        rc == IF hit THEN "NC_ESYS" ELSE r.rc
    IN [st EXCEPT !.ncalls = @ + 1,
                  !.nc = IF hit THEN @ ELSE r.nc,
                  !.retval = rc,
                  !.out = IF hit THEN -1 ELSE r.id,
                  !.calls = Append(@, [fn |-> fn, name |-> name, varid |-> varid,
                                       start |-> start, count |-> count, rc |-> rc])]

\* ERR that also closes the file before it returns
ERRClosing(st) ==
    IF st.retval # NC_NOERR
    THEN [st EXCEPT !.ret = asynError, !.nc = nc_close(st.nc, st.ncId).nc]
    ELSE st

\* ERR that logs the error and goes on
ERRLogged(st) == st

\* if ((retval = ...)) ERR(retval): log the error and return asynError
ERR(st) == IF st.retval # NC_NOERR THEN [st EXCEPT !.ret = asynError] ELSE st

PutAtt(st, name, xtype, val) ==
    ERR(Lib(st, "nc_put_att", name, -1, <<>>, <<>>,
            nc_put_att(st.nc, st.ncId, name, xtype, val)))

DefDim(st, name, len) ==
    Lib(st, "nc_def_dim", name, -1, <<>>, <<>>, nc_def_dim(st.nc, st.ncId, name, len))

DefVar(st, name, xtype, ndims, dimids) ==
    Lib(st, "nc_def_var", name, -1, <<>>, <<>>,
        nc_def_var(st.nc, st.ncId, name, xtype, ndims, dimids))

-----------------------------------------------------------------------------
(* openFile *)

\* sprintf(dimName, "dim%d", i)
DimName(i) ==
    <<"dim0", "dim1", "dim2", "dim3", "dim4", "dim5", "dim6", "dim7", "dim8", "dim9">>[i + 1]

\* ArrayNcType with NDUInt16 widened to NC_INT
ArrayNcTypeWidened(dataType) ==
    CASE dataType \in {"NDInt8", "NDUInt8"} -> "NC_BYTE"
      [] dataType = "NDInt16" -> "NC_SHORT"
      [] dataType \in {"NDUInt16", "NDInt32", "NDUInt32"} -> "NC_INT"
      [] dataType = "NDFloat32" -> "NC_FLOAT"
      [] dataType = "NDFloat64" -> "NC_DOUBLE"
      [] OTHER -> "NC_NAT"

\* the element type's storage type; NC_NAT when the switch has no case for it
ArrayNcType(dataType) ==
    CASE dataType \in {"NDInt8", "NDUInt8"} -> "NC_BYTE"
      [] dataType \in {"NDInt16", "NDUInt16"} -> "NC_SHORT"
      [] dataType \in {"NDInt32", "NDUInt32"} -> "NC_INT"
      [] dataType = "NDFloat32" -> "NC_FLOAT"
      [] dataType = "NDFloat64" -> "NC_DOUBLE"
      [] OTHER -> "NC_NAT"

\* the attribute type's storage type (NDAttrUndefined returns before it is used)
AttrNcType(attrDataType) ==
    CASE attrDataType \in {"NDAttrInt8", "NDAttrUInt8"} -> "NC_BYTE"
      [] attrDataType \in {"NDAttrInt16", "NDAttrUInt16"} -> "NC_SHORT"
      [] attrDataType \in {"NDAttrInt32", "NDAttrUInt32"} -> "NC_INT"
      [] attrDataType = "NDAttrFloat32" -> "NC_FLOAT"
      [] attrDataType = "NDAttrFloat64" -> "NC_DOUBLE"
      [] attrDataType = "NDAttrString" -> "NC_CHAR"
      [] OTHER -> "NC_NAT"

\* Dim0 without the test of NDFileModeMultiple
Dim0Fixed(openMode) == 1

\* the length of the first dimension
Dim0(openMode) == IF NDFileModeMultiple \in openMode THEN NC_UNLIMITED ELSE 1

\* OpenDimLoop without the reversal: j = i
RECURSIVE OpenDimLoopForward(_, _, _)
OpenDimLoopForward(i, st, pArray) ==
    IF i >= pArray.ndims THEN st
    ELSE LET t == DefDim(st, DimName(i), pArray.dims[i + 1].size)
         IN IF t.retval # NC_NOERR THEN ERR(t)
            ELSE OpenDimLoopForward(i + 1, [t EXCEPT !.dimIds = Append(@, t.out)], pArray)

\* for (i=0; i<pArray->ndims; i++): dimension i of the file is dimension
\* ndims - i - 1 of the frame (i counts from 0 here as in the source)
RECURSIVE OpenDimLoop(_, _, _)
OpenDimLoop(i, st, pArray) ==
    IF i >= pArray.ndims THEN st
    ELSE LET j == pArray.ndims - i - 1
             t == DefDim(st, DimName(i), pArray.dims[j + 1].size)
         IN IF t.retval # NC_NOERR THEN ERR(t)
            ELSE OpenDimLoop(i + 1, [t EXCEPT !.dimIds = Append(@, t.out)], pArray)

\* while (pAttribute): attribute number n (from 1) of the frame
RECURSIVE OpenAttrLoop(_, _, _)
OpenAttrLoop(n, st, pArray) ==
    IF n > Len(pArray.attributes) THEN st
    ELSE
    LET a == pArray.attributes[n]
        s1 == PutAtt(st, a.name \o "_DataType", "NC_INT", <<a.dataType>>)
    IN IF s1.ret # "running" THEN s1 ELSE
    LET s2 == PutAtt(s1, a.name \o "_Description", "NC_CHAR", a.description)
    IN IF s2.ret # "running" THEN s2 ELSE
    IF a.dataType = "NDAttrUndefined" THEN [s2 EXCEPT !.ret = asynError] ELSE
    LET s3 == [s2 EXCEPT !.ncType = AttrNcType(a.dataType)]
        s4 == IF a.dataType = "NDAttrString"
              THEN DefVar(s3, a.name, s3.ncType, 2, s3.stringDimIds)
              ELSE DefVar(s3, a.name, s3.ncType, 1, s3.dimIds)
        \* &this->pAttributeId[attrCount++] is written only when nc_def_var succeeds
    IN IF s4.retval # NC_NOERR THEN ERR(s4)
       ELSE OpenAttrLoop(n + 1,
                [s4 EXCEPT !.pAttributeId.ids = [@ EXCEPT ![n] = s4.out]], pArray)

\* the statements of openFile after the mode checks, in order
OpenStep(k, st, fileName, openMode, pArray) ==
    CASE k = 1 ->
           LET s1 == [st EXCEPT !.nextRecord = 0]
               s2 == Lib(s1, "nc_create", fileName, -1, <<>>, <<>>, nc_create(s1.nc, fileName))
           IN IF s2.retval # NC_NOERR THEN ERR(s2) ELSE [s2 EXCEPT !.ncId = s2.out]
      [] k = 2 -> PutAtt(st, "dataType", "NC_INT", <<pArray.dataType>>)
      [] k = 3 -> PutAtt(st, "NDNetCDFFileVersion", "NC_DOUBLE", <<"NDNetCDFFileVersion">>)
      [] k = 4 -> PutAtt(st, "numArrayDims", "NC_INT", <<pArray.ndims>>)
      [] k = 5 ->
           LET t == DefDim(st, "numArrays", Dim0(openMode))
           IN IF t.retval # NC_NOERR THEN ERR(t) ELSE [t EXCEPT !.dimIds = <<t.out>>]
      [] k = 6 -> OpenDimLoop(0, st, pArray)
      [] k = 7 ->
           LET t == DefDim(st, "attrStringSize", MAX_ATTRIBUTE_STRING_SIZE)
           IN IF t.retval # NC_NOERR THEN ERR(t)
              ELSE [t EXCEPT !.stringDimIds = <<st.dimIds[1], t.out>>]
      [] k = 8 -> PutAtt(st, "dimSize", "NC_INT",
                         [i \in 1..pArray.ndims |-> pArray.dims[i].size])
      [] k = 9 -> PutAtt(st, "dimOffset", "NC_INT",
                         [i \in 1..pArray.ndims |-> pArray.dims[i].offset])
      [] k = 10 -> PutAtt(st, "dimBinning", "NC_INT",
                          [i \in 1..pArray.ndims |-> pArray.dims[i].binning])
      [] k = 11 -> PutAtt(st, "dimReverse", "NC_INT",
                          [i \in 1..pArray.ndims |-> pArray.dims[i].reverse])
      [] k = 12 -> [st EXCEPT !.ncType = ArrayNcType(pArray.dataType)]
      [] k = 13 ->
           LET t == DefVar(st, "uniqueId", "NC_INT", 1, st.dimIds)
           IN IF t.retval # NC_NOERR THEN ERR(t) ELSE [t EXCEPT !.uniqueIdId = t.out]
      [] k = 14 ->
           LET t == DefVar(st, "timeStamp", "NC_DOUBLE", 1, st.dimIds)
           IN IF t.retval # NC_NOERR THEN ERR(t) ELSE [t EXCEPT !.timeStampId = t.out]
      [] k = 15 ->
           LET t == DefVar(st, "array_data", st.ncType, pArray.ndims + 1, st.dimIds)
           IN IF t.retval # NC_NOERR THEN ERR(t) ELSE [t EXCEPT !.arrayDataId = t.out]
      [] k = 16 ->
           \* free(this->pAttributeId); calloc(numAttributes, sizeof(int))
           [st EXCEPT !.pAttributeId =
               [null |-> FALSE, ids |-> [n \in 1..Len(pArray.attributes) |-> 0]]]
      [] k = 17 -> OpenAttrLoop(1, st, pArray)
      [] k = 18 ->
           ERR(Lib(st, "nc_enddef", "", -1, <<>>, <<>>, nc_enddef(st.nc, st.ncId)))
      [] OTHER -> [st EXCEPT !.ret = asynSuccess]

RECURSIVE RunOpen(_, _, _, _, _)
RunOpen(k, st, fileName, openMode, pArray) ==
    IF st.ret # "running" THEN st
    ELSE RunOpen(k + 1, OpenStep(k, st, fileName, openMode, pArray),
                 fileName, openMode, pArray)

\* openFileBody with nextRecord = 0 ahead of the mode checks
openFileBodyResetFirst(st, fileName, openMode, pArray) ==
    LET s0 == [st EXCEPT !.nextRecord = 0]
    IN IF NDFileModeRead \in openMode THEN [s0 EXCEPT !.ret = asynError]
       ELSE IF NDFileModeAppend \in openMode THEN [s0 EXCEPT !.ret = asynError]
       ELSE RunOpen(1, s0, fileName, openMode, pArray)

\* openFileBody without the test of NDFileModeAppend
openFileBodyNoAppend(st, fileName, openMode, pArray) ==
    IF NDFileModeRead \in openMode THEN [st EXCEPT !.ret = asynError]
    ELSE RunOpen(1, st, fileName, openMode, pArray)

\* asynStatus NDFileNetCDF::openFile(fileName, openMode, pArray)
openFileBody(st, fileName, openMode, pArray) ==
    IF NDFileModeRead \in openMode THEN [st EXCEPT !.ret = asynError]
    ELSE IF NDFileModeAppend \in openMode THEN [st EXCEPT !.ret = asynError]
    ELSE RunOpen(1, st, fileName, openMode, pArray)

-----------------------------------------------------------------------------
(* writeFile *)

PutVara(st, varid, start, count, mem, memtype, junk) ==
    ERR(Lib(st, "nc_put_vara_" \o memtype, "", varid, start, count,
            nc_put_vara(st.nc, st.ncId, varid, start, count, mem, memtype, junk)))

\* the buffer behind pData seen through the pointer type of the storage call:
\* (signed char *), (short *), (int *), (float *), (double *)
DataMemType(dataType) ==
    CASE dataType \in {"NDInt8", "NDUInt8"} -> "schar"
      [] dataType \in {"NDInt16", "NDUInt16"} -> "short"
      [] dataType \in {"NDInt32", "NDUInt32"} -> "int"
      [] dataType = "NDFloat32" -> "float"
      [] dataType = "NDFloat64" -> "double"
      [] OTHER -> "none"

AttrMemType(attrDataType) ==
    CASE attrDataType \in {"NDAttrInt8", "NDAttrUInt8"} -> "schar"
      [] attrDataType \in {"NDAttrInt16", "NDAttrUInt16"} -> "short"
      [] attrDataType \in {"NDAttrInt32", "NDAttrUInt32"} -> "int"
      [] attrDataType = "NDAttrFloat32" -> "float"
      [] attrDataType = "NDAttrFloat64" -> "double"
      [] attrDataType = "NDAttrString" -> "text"
      [] OTHER -> "none"

\* AsMem that converts with saturation instead of reading the same bytes
AsMemSaturated(v, memtype) ==
    CASE memtype = "schar" -> Min(v, 127)
      [] memtype = "short" -> Min(v, 32767)
      [] OTHER -> v

\* a value read through a pointer to the signed type of the same width
AsMem(v, memtype) ==
    CASE memtype = "schar" -> Wrap(v, 8)
      [] memtype = "short" -> Wrap(v, 16)
      [] OTHER -> v

\* getValue(NDAttrString, attrString, sizeof(attrString)); strlen(attrString)
GetString(value) == SubSeq(value, 1, Min(Len(value), MAX_ATTRIBUTE_STRING_SIZE - 1))

\* WriteStart with start[0] = 0
WriteStartZero(cursor, pArray) == <<0>> \o [i \in 1..pArray.ndims |-> 0]

\* WriteStart with start[0] = nextRecord + 1
WriteStartNext(cursor, pArray) == <<cursor + 1>> \o [i \in 1..pArray.ndims |-> 0]

\* WriteCount in the frame's own order: count[i+1] = dims[i].size
WriteCountForward(pArray) ==
    <<1>> \o [i \in 1..pArray.ndims |-> pArray.dims[i].size]

\* count[0] = 1; start[0] = nextRecord; count[i+1] = dims[ndims-i-1].size
WriteCount(pArray) ==
    <<1>> \o [i \in 1..pArray.ndims |-> pArray.dims[pArray.ndims - i + 1].size]

WriteStart(cursor, pArray) == <<cursor>> \o [i \in 1..pArray.ndims |-> 0]

\* AttrIdAt without the attrCount++
AttrIdAtFirst(tab, n, junk) ==
    IF ~tab.null /\ Len(tab.ids) >= 1 THEN tab.ids[1] ELSE junk

\* attrId = this->pAttributeId[attrCount++]: past the end of the table the
\* read gives junk
AttrIdAt(tab, n, junk) ==
    IF ~tab.null /\ n \in 1..Len(tab.ids) THEN tab.ids[n] ELSE junk

\* WriteAttrLoop that goes on to the next attribute at NDAttrUndefined
RECURSIVE WriteAttrLoopSkip(_, _, _, _)
WriteAttrLoopSkip(n, st, pArray, junk) ==
    IF n > Len(pArray.attributes) THEN st
    ELSE
    LET a == pArray.attributes[n]
        attrId == AttrIdAt(st.pAttributeId, n, junk)
        mt == AttrMemType(a.dataType)
        t == CASE a.dataType = "NDAttrUndefined" -> st
               [] a.dataType = "NDAttrString" ->
                    LET attrString == GetString(a.value)
                    IN PutVara(st, attrId, st.start, <<1, Len(attrString)>>,
                               attrString, "text", junk)
               [] OTHER ->
                    PutVara(st, attrId, st.start, st.count, <<AsMem(a.value, mt)>>, mt, junk)
    IN IF t.ret # "running" THEN t ELSE WriteAttrLoopSkip(n + 1, t, pArray, junk)

\* while (pAttribute): attribute number n (from 1) of the frame
RECURSIVE WriteAttrLoop(_, _, _, _)
WriteAttrLoop(n, st, pArray, junk) ==
    IF n > Len(pArray.attributes) THEN st
    ELSE
    LET a == pArray.attributes[n]
        attrId == AttrIdAt(st.pAttributeId, n, junk)
        mt == AttrMemType(a.dataType)
        t == CASE a.dataType = "NDAttrUndefined" -> [st EXCEPT !.ret = asynError]
               [] a.dataType = "NDAttrString" ->
                    LET attrString == GetString(a.value)
                    IN PutVara(st, attrId, st.start, <<1, Len(attrString)>>,
                               attrString, "text", junk)
               [] OTHER ->
                    PutVara(st, attrId, st.start, st.count, <<AsMem(a.value, mt)>>, mt, junk)
    IN IF t.ret # "running" THEN t ELSE WriteAttrLoop(n + 1, t, pArray, junk)

\* WriteStep with nextRecord++ ahead of the attribute loop
WriteStepEarly(k, st, pArray, junk) ==
    CASE k = 1 -> [st EXCEPT !.count = WriteCount(pArray),
                             !.start = WriteStart(st.nextRecord, pArray)]
      [] k = 2 -> PutVara(st, st.uniqueIdId, st.start, st.count, <<pArray.uniqueId>>, "int", junk)
      [] k = 3 -> PutVara(st, st.timeStampId, st.start, st.count, <<pArray.timeStamp>>,
                          "double", junk)
      [] k = 4 ->
           LET mt == DataMemType(pArray.dataType)
           IN IF mt = "none" THEN st
              ELSE PutVara(st, st.arrayDataId, st.start, st.count,
                           [i \in 1..Len(pArray.pData) |-> AsMem(pArray.pData[i], mt)],
                           mt, junk)
      [] k = 5 -> [st EXCEPT !.nextRecord = @ + 1]
      [] k = 6 -> WriteAttrLoop(1, st, pArray, junk)
      [] OTHER -> [st EXCEPT !.ret = asynSuccess]

\* the statements of writeFile, in order
WriteStep(k, st, pArray, junk) ==
    CASE k = 1 -> [st EXCEPT !.count = WriteCount(pArray),
                             !.start = WriteStart(st.nextRecord, pArray)]
      [] k = 2 -> PutVara(st, st.uniqueIdId, st.start, st.count, <<pArray.uniqueId>>, "int", junk)
      [] k = 3 -> PutVara(st, st.timeStampId, st.start, st.count, <<pArray.timeStamp>>,
                          "double", junk)
      [] k = 4 ->
           LET mt == DataMemType(pArray.dataType)
           IN IF mt = "none" THEN st
              ELSE PutVara(st, st.arrayDataId, st.start, st.count,
                           [i \in 1..Len(pArray.pData) |-> AsMem(pArray.pData[i], mt)],
                           mt, junk)
      [] k = 5 -> WriteAttrLoop(1, st, pArray, junk)
      [] k = 6 -> [st EXCEPT !.nextRecord = @ + 1]
      [] OTHER -> [st EXCEPT !.ret = asynSuccess]

RECURSIVE RunWrite(_, _, _, _)
RunWrite(k, st, pArray, junk) ==
    IF st.ret # "running" THEN st
    ELSE RunWrite(k + 1, WriteStep(k, st, pArray, junk), pArray, junk)

\* asynStatus NDFileNetCDF::writeFile(pArray)
writeFileBody(st, pArray, junk) == RunWrite(1, st, pArray, junk)

-----------------------------------------------------------------------------
(* closeFile *)

\* closeFileBody that frees the attribute table
closeFileBodyFree(st) ==
    LET t == ERR(Lib(st, "nc_close", "", -1, <<>>, <<>>, nc_close(st.nc, st.ncId)))
        u == [t EXCEPT !.pAttributeId = [null |-> TRUE, ids |-> <<>>]]
    IN IF u.ret # "running" THEN u ELSE [u EXCEPT !.ret = asynSuccess]

\* asynStatus NDFileNetCDF::closeFile()
closeFileBody(st) ==
    LET t == ERR(Lib(st, "nc_close", "", -1, <<>>, <<>>, nc_close(st.nc, st.ncId)))
    IN IF t.ret # "running" THEN t ELSE [t EXCEPT !.ret = asynSuccess]

-----------------------------------------------------------------------------
(* The state machine. *)

\* A file whose handle the object no longer holds.  this->ncId is the only
\* place the program keeps a handle, and nc_create never hands out the id of
\* a file that is still open: once this->ncId is overwritten, no later call
\* of the program can name the earlier file.  It stays open in the library;
\* what it contains is no longer followed.
LostFile == [lost |-> TRUE]

Held(tab, id) == [i \in DOMAIN tab |-> IF i = id THEN tab[i] ELSE LostFile]

\* the members after a handler ran to st
Commit(st, op) ==
    /\ ncId' = st.ncId
    /\ nextRecord' = st.nextRecord
    /\ uniqueIdId' = st.uniqueIdId
    /\ timeStampId' = st.timeStampId
    /\ arrayDataId' = st.arrayDataId
    /\ pAttributeId' = st.pAttributeId
    /\ nc' = Held(st.nc, st.ncId)
    /\ faults' = IF st.fault \in 1..st.ncalls THEN faults + 1 ELSE faults
    /\ lastOp' = op
    /\ status' = st.ret
    /\ calls' = st.calls
    /\ UNCHANGED source

\* the library calls that may fail for an outside reason in this invocation
FaultChoices(max) == IF faults < MaxFaults THEN 0..max ELSE {0}

\* the constructor sets supportsMultipleArrays and pAttributeId = NULL and
\* leaves the other members uninitialised; no file is open
Init ==
    /\ \E j \in Junk :
         /\ ncId = j
         /\ nextRecord = j
         /\ uniqueIdId = j
         /\ timeStampId = j
         /\ arrayDataId = j
    /\ pAttributeId = [null |-> TRUE, ids |-> <<>>]
    /\ nc = <<>>
    /\ source \in Sources
    /\ faults = 0
    /\ lastOp = "none"
    /\ status = asynSuccess
    /\ calls = <<>>

\* the most library calls one openFile makes: none when it refuses the mode,
\* else 14, one per dimension and 3 per attribute
MaxOpenCalls(openMode, pArray) ==
    IF NDFileModeRead \in openMode \/ NDFileModeAppend \in openMode THEN 0
    ELSE 14 + pArray.ndims + 3 * Len(pArray.attributes)

openFile ==
    \E fileName \in FileNames, openMode \in OpenModes, pArray \in Frames(source) :
      \E fault \in FaultChoices(MaxOpenCalls(openMode, pArray)) :
        Commit(openFileBody(Start(fault), fileName, openMode, pArray), "open")

\* the runs stop where a write would take the cursor past MaxRecords
writeFile ==
    \E pArray \in Frames(source), junk \in Junk :
      \E fault \in FaultChoices(3 + Len(pArray.attributes)) :
        LET st == writeFileBody(Start(fault), pArray, junk)
        IN /\ st.nextRecord = nextRecord \/ st.nextRecord <= MaxRecords
           /\ Commit(st, "write")

closeFile ==
    \E fault \in FaultChoices(1) : Commit(closeFileBody(Start(fault)), "close")

Next == openFile \/ writeFile \/ closeFile

Spec == Init /\ [][Next]_vars

-----------------------------------------------------------------------------
(* What the properties below speak about. *)

\* the object holds the handle of a file that is open in the library
HoldsFile == ncId \in DOMAIN nc

HeldFile == nc[ncId]

\* the held file has left define mode: openFile ran to its end on it
InDataMode == HoldsFile /\ ~HeldFile.defmode

SingleRecordFile == InDataMode /\ HeldFile.dims[1].len = 1

MultiRecordFile == InDataMode /\ HeldFile.dims[1].len = NC_UNLIMITED

Accepted(openMode) == NDFileModeRead \notin openMode /\ NDFileModeAppend \notin openMode

Reversed(s) == [i \in 1..Len(s) |-> s[Len(s) - i + 1]]

Sizes(pArray) == [i \in 1..pArray.ndims |-> pArray.dims[i].size]

\* the records the variable with id v of file f holds
Records(f, v) == Len(f.data[v + 1])

\* the position (from 1) of the variable called name in file f, 0 if none
VarNamed(f, name) ==
    IF \E v \in 1..Len(f.vars) : f.vars[v].name = name
    THEN CHOOSE v \in 1..Len(f.vars) : f.vars[v].name = name
    ELSE 0

WroteOk == lastOp = "write" /\ status = asynSuccess

-----------------------------------------------------------------------------
(* C1 *)

\* C1: openFile called with a mode that has the Read bit or the Append bit
\* returns asynError, makes no library call and leaves the library's files
\* (so the file system) as they were, whatever the file name and the frame.
C1_ModeRejected ==
    \A fileName \in FileNames, openMode \in OpenModes, pArray \in Frames(source) :
      ~Accepted(openMode) =>
        LET st == openFileBody(Start(0), fileName, openMode, pArray)
        IN /\ st.ret = asynError
           /\ st.calls = <<>>
           /\ st.nc = nc

\* an openFile that made no library call has returned asynError while a
\* written file was held
C1_Witness ==
    /\ lastOp = "open"
    /\ status = asynError
    /\ calls = <<>>
    /\ InDataMode
    /\ nextRecord > 0

-----------------------------------------------------------------------------
(* C2 *)

\* C2 as stated: the cursor counts the successful writeFile calls since the
\* last successful openFile.  While a file opened with success is held, an
\* openFile that fails makes no successful write and is no successful open,
\* so it leaves that count, and with it the cursor, as it was.
C2_Original ==
    [][(InDataMode /\ lastOp' = "open" /\ status' = asynError)
          => nextRecord' = nextRecord]_vars

\* C2: the cursor counts the successful writeFile calls since the last
\* openFile that got past its mode checks, successful or not: such an
\* openFile sets it to 0, a successful writeFile adds exactly 1, and a failed
\* writeFile, an openFile refused for its mode and closeFile leave it alone.
C2_CursorCounts ==
    [][CASE lastOp' = "open" /\ calls' # <<>> -> nextRecord' = 0
         [] lastOp' = "open" -> nextRecord' = nextRecord
         [] lastOp' = "write" /\ status' = asynSuccess -> nextRecord' = nextRecord + 1
         [] OTHER -> nextRecord' = nextRecord]_vars

\* two writes have succeeded since the open, and a write has then failed
C2_Witness ==
    /\ lastOp = "write"
    /\ status = asynError
    /\ InDataMode
    /\ nextRecord = MaxRecords
    /\ \A v \in 0..(Len(HeldFile.vars) - 1) : Records(HeldFile, v) = MaxRecords

-----------------------------------------------------------------------------
(* C3 *)

\* C3: while a file opened without NDFileModeMultiple is held, the cursor is
\* at most 1 and no variable of the file holds more than one record; once
\* the cursor is 1, every writeFile (any frame, any outside fault) returns
\* asynError and leaves the cursor at 1.
C3_SingleRecord ==
    SingleRecordFile =>
      /\ nextRecord <= 1
      /\ \A v \in 0..(Len(HeldFile.vars) - 1) : Records(HeldFile, v) <= 1
      /\ nextRecord = 1 =>
           \A pArray \in Frames(source), junk \in Junk :
             LET st == writeFileBody(Start(0), pArray, junk)
             IN st.ret = asynError /\ st.nextRecord = 1

\* the second writeFile on a single-record file has failed: its first slab
\* was refused, at record index 1
C3_Witness ==
    /\ SingleRecordFile
    /\ nextRecord = 1
    /\ lastOp = "write"
    /\ status = asynError
    /\ Len(calls) = 1
    /\ calls[1].start[1] = 1
    /\ calls[1].rc # NC_NOERR
    /\ faults = 0

-----------------------------------------------------------------------------
(* C4 *)

\* C4: on a file opened with NDFileModeMultiple, a writeFile that succeeds
\* puts every slab at the record index the cursor had, one below the cursor
\* it leaves; the records below the cursor all exist, so successive successful
\* writes fill 0, 1, 2, ... without reuse; and below the bound of the model a
\* further write can succeed.
C4_MultiRecord ==
    /\ (MultiRecordFile /\ WroteOk) =>
         /\ nextRecord >= 1
         /\ \A i \in 1..Len(calls) :
              calls[i].start[1] = nextRecord - 1 /\ calls[i].rc = NC_NOERR
         /\ HeldFile.numrecs >= nextRecord
    /\ (MultiRecordFile /\ nextRecord < MaxRecords) =>
         \E pArray \in Frames(source), junk \in Junk :
           LET st == writeFileBody(Start(0), pArray, junk)
           IN st.ret = asynSuccess /\ st.nextRecord = nextRecord + 1

\* the second successful write in a row on a multi-record file: it went to
\* record index 1
C4_Witness ==
    /\ MultiRecordFile
    /\ WroteOk
    /\ nextRecord = 2
    /\ HeldFile.numrecs = 2
    /\ \A i \in 1..Len(calls) : calls[i].start[1] = 1

-----------------------------------------------------------------------------
(* C5 *)

\* C5: after a successful openFile the axes of array_data that follow the
\* record axis have the frame's dimension sizes in reversed order.
C5_AxesReversed ==
    \A fileName \in FileNames, openMode \in OpenModes, pArray \in Frames(source) :
      Accepted(openMode) =>
        LET st == openFileBody(Start(0), fileName, openMode, pArray)
        IN st.ret = asynSuccess =>
             LET f == st.nc[st.ncId]
                 v == VarNamed(f, "array_data")
             IN /\ v = st.arrayDataId + 1
                /\ Tail(AxisLens(f, v)) = Reversed(Sizes(pArray))

\* a frame of sizes 2, 3, 4 has been opened: array_data has axes 4, 3, 2
\* after the record axis
C5_Witness ==
    /\ source = "shapes"
    /\ lastOp = "open"
    /\ status = asynSuccess
    /\ InDataMode
    /\ Tail(AxisLens(HeldFile, arrayDataId + 1)) = <<4, 3, 2>>

-----------------------------------------------------------------------------
(* C6 *)

\* the record axis leads every variable of f, and a text variable has the
\* string-cap axis as its second and last axis
RecordAxisLeads(f) ==
    /\ Len(f.dims) >= 1 =>
         f.dims[1].name = "numArrays" /\ f.dims[1].len \in {1, NC_UNLIMITED}
    /\ \A v \in 1..Len(f.vars) :
         /\ Len(f.vars[v].dimids) >= 1
         /\ f.vars[v].dimids[1] = 0
         /\ f.vars[v].xtype = "NC_CHAR" =>
              /\ Len(f.vars[v].dimids) = 2
              /\ f.dims[f.vars[v].dimids[2] + 1] =
                   [name |-> "attrStringSize", len |-> MAX_ATTRIBUTE_STRING_SIZE]

\* C6: in every file openFile defines, however far the definition got, the
\* record axis numArrays is the first axis and leads every variable, and a
\* string attribute's variable has the 256-character axis second; a
\* successful openFile gives the record axis length 1 without
\* NDFileModeMultiple and makes it unlimited with it, and defines uniqueId,
\* timeStamp, array_data and one variable per attribute.
C6_RecordAxis ==
    /\ HoldsFile => RecordAxisLeads(HeldFile)
    /\ \A fileName \in FileNames, openMode \in OpenModes, pArray \in Frames(source) :
         Accepted(openMode) =>
           LET st == openFileBody(Start(0), fileName, openMode, pArray)
           IN st.ret = asynSuccess =>
                LET f == st.nc[st.ncId]
                IN /\ RecordAxisLeads(f)
                   /\ f.dims[1].len = IF NDFileModeMultiple \in openMode
                                      THEN NC_UNLIMITED ELSE 1
                   /\ \A name \in {"uniqueId", "timeStamp", "array_data"} :
                        VarNamed(f, name) # 0
                   /\ \A n \in 1..Len(pArray.attributes) :
                        VarNamed(f, pArray.attributes[n].name) # 0

\* a multi-record file with a string attribute has been opened: its text
\* variable lies on the record axis and the 256-character axis
C6_Witness ==
    /\ source = "strings"
    /\ lastOp = "open"
    /\ status = asynSuccess
    /\ MultiRecordFile
    /\ VarNamed(HeldFile, "S") # 0
    /\ AxisLens(HeldFile, VarNamed(HeldFile, "S")) = <<NC_UNLIMITED, MAX_ATTRIBUTE_STRING_SIZE>>

-----------------------------------------------------------------------------
(* C7 *)

\* C7: a successful openFile leaves in entry i of the table the id of the
\* variable it defined for the frame's i-th attribute; no writeFile changes
\* the table; and the slab a writeFile makes for the i-th attribute of its
\* frame (its call number 3 + i) goes to the variable in entry i of the table.
C7_AttrTable ==
    /\ \A fileName \in FileNames, openMode \in OpenModes, pArray \in Frames(source) :
         Accepted(openMode) =>
           LET st == openFileBody(Start(0), fileName, openMode, pArray)
           IN st.ret = asynSuccess =>
                /\ ~st.pAttributeId.null
                /\ Len(st.pAttributeId.ids) = Len(pArray.attributes)
                /\ \A i \in 1..Len(pArray.attributes) :
                     st.nc[st.ncId].vars[st.pAttributeId.ids[i] + 1].name =
                       pArray.attributes[i].name
    /\ \A pArray \in Frames(source), junk \in Junk :
         \A fault \in 0..(3 + Len(pArray.attributes)) :
           LET st == writeFileBody(Start(fault), pArray, junk)
           IN /\ st.pAttributeId = pAttributeId
              /\ \A i \in 1..Len(pAttributeId.ids) :
                   3 + i <= Len(st.calls) => st.calls[3 + i].varid = pAttributeId.ids[i]

\* a frame with two attributes has been written with success: the fourth
\* and fifth slabs went to the two different variables of the table
C7_Witness ==
    /\ source = "attrs"
    /\ WroteOk
    /\ InDataMode
    /\ Len(pAttributeId.ids) = 2
    /\ Len(calls) = 5
    /\ calls[4].varid = pAttributeId.ids[1]
    /\ calls[5].varid = pAttributeId.ids[2]
    /\ pAttributeId.ids[1] # pAttributeId.ids[2]

-----------------------------------------------------------------------------
(* C8 *)

\* the storage type the table of the specification gives a type name
TableStorage(type) ==
    CASE type \in {"NDInt8", "NDUInt8", "NDAttrInt8", "NDAttrUInt8"} -> "NC_BYTE"
      [] type \in {"NDInt16", "NDUInt16", "NDAttrInt16", "NDAttrUInt16"} -> "NC_SHORT"
      [] type \in {"NDInt32", "NDUInt32", "NDAttrInt32", "NDAttrUInt32"} -> "NC_INT"
      [] type \in {"NDFloat32", "NDAttrFloat32"} -> "NC_FLOAT"
      [] type \in {"NDFloat64", "NDAttrFloat64"} -> "NC_DOUBLE"
      [] type = "NDAttrString" -> "NC_CHAR"

\* the value of the global attribute called name of file f
GlobalAtt(f, name) ==
    (CHOOSE g \in {f.gatts[i] : i \in 1..Len(f.gatts)} : g.name = name).val

\* C8: in every file openFile defines, array_data has the storage type the
\* table gives the element type recorded in the global attribute dataType,
\* and the variable of each attribute has the storage type the table gives
\* the attribute type recorded in <name>_DataType, whatever the element type.
C8_TypeTable ==
    HoldsFile =>
      \A v \in 1..Len(HeldFile.vars) :
        LET var == HeldFile.vars[v]
        IN /\ var.name = "array_data" =>
                var.xtype = TableStorage(GlobalAtt(HeldFile, "dataType")[1])
           /\ var.name \notin {"array_data", "uniqueId", "timeStamp"} =>
                var.xtype = TableStorage(GlobalAtt(HeldFile, var.name \o "_DataType")[1])

\* a frame of unsigned 16-bit elements with a signed 8-bit attribute has been
\* opened: array_data is stored as short, the attribute as byte
C8_Witness ==
    /\ source = "NDUInt16"
    /\ InDataMode
    /\ GlobalAtt(HeldFile, "dataType") = <<"NDUInt16">>
    /\ HeldFile.vars[arrayDataId + 1].xtype = "NC_SHORT"
    /\ GlobalAtt(HeldFile, "A_DataType") = <<"NDAttrInt8">>
    /\ HeldFile.vars[VarNamed(HeldFile, "A")].xtype = "NC_BYTE"

-----------------------------------------------------------------------------
(* C9 *)

HasUndefined(pArray) ==
    \E n \in 1..Len(pArray.attributes) : pArray.attributes[n].dataType = "NDAttrUndefined"

\* C9: a writeFile whose frame carries an attribute of type NDAttrUndefined
\* returns asynError and leaves the cursor where it was, in every state and
\* whatever else fails.
C9_UndefinedAttr ==
    \A pArray \in Frames(source), junk \in Junk :
      HasUndefined(pArray) =>
        \A fault \in 0..(3 + Len(pArray.attributes)) :
          LET st == writeFileBody(Start(fault), pArray, junk)
          IN st.ret = asynError /\ st.nextRecord = nextRecord

\* a write has returned asynError though its three library calls succeeded:
\* it stopped at the undefined attribute, with the cursor still at 1
C9_Witness ==
    /\ source = "undefined"
    /\ lastOp = "write"
    /\ status = asynError
    /\ InDataMode
    /\ nextRecord = 1
    /\ Len(calls) = 3
    /\ \A i \in 1..3 : calls[i].rc = NC_NOERR

-----------------------------------------------------------------------------
(* C10 *)

\* C10 as stated: once closeFile has returned, the object holds no
\* attribute-id table.
C10_Original == lastOp = "close" => pAttributeId.null

\* C10: closeFile leaves the attribute-id table as it is, whether nc_close
\* succeeds or fails: the object holds after the call the table it held
\* before it.  The table changes hands only inside an openFile that has
\* defined array_data.
C10_TableKept ==
    [][/\ lastOp' = "close" => pAttributeId' = pAttributeId
       /\ pAttributeId' # pAttributeId =>
            /\ lastOp' = "open"
            /\ \E i \in 1..Len(calls') :
                 calls'[i].name = "array_data" /\ calls'[i].rc = NC_NOERR]_vars

\* closeFile has returned asynSuccess, no file is open, and the object still
\* holds the table of the closed file
C10_Witness ==
    /\ lastOp = "close"
    /\ status = asynSuccess
    /\ nc = <<>>
    /\ ~pAttributeId.null
    /\ Len(pAttributeId.ids) >= 1

-----------------------------------------------------------------------------
(* C11 *)

\* the signed number with the bytes of element v of a buffer of type dataType
SameBytes(dataType, v) ==
    CASE dataType = "NDUInt8" /\ v >= 128 -> v - 256
      [] dataType = "NDUInt16" /\ v >= 32768 -> v - 65536
      [] OTHER -> v

\* the frame has the shape of the data variable of file f
HasSchemaShape(f, pArray) ==
    /\ VarNamed(f, "array_data") # 0
    /\ Tail(AxisLens(f, VarNamed(f, "array_data"))) = Reversed(Sizes(pArray))

\* record r (from 0) of the variable called name in file f
RecordOf(f, name, r) == f.data[VarNamed(f, name)][r + 1]

FrameRecords == {"uniqueId", "timeStamp", "array_data"}

\* the file after writeFile of pArray holds the frame in the record at the
\* cursor (unique id, timestamp and data buffer, cell for cell with the same
\* bytes) and has the other records of these three variables as they were
HoldsFrame(st, pArray) ==
    LET f == st.nc[st.ncId]
    IN /\ f.numrecs >= nextRecord + 1
       /\ RecordOf(f, "uniqueId", nextRecord) = <<pArray.uniqueId>>
       /\ RecordOf(f, "timeStamp", nextRecord) = <<pArray.timeStamp>>
       /\ RecordOf(f, "array_data", nextRecord) =
            [k \in 1..Len(pArray.pData) |-> SameBytes(pArray.dataType, pArray.pData[k])]
       /\ \A name \in FrameRecords, r \in 0..(HeldFile.numrecs - 1) :
            r # nextRecord => RecordOf(f, name, r) = RecordOf(HeldFile, name, r)

\* C11: on a held multi-record file, a writeFile of a frame of the schema's
\* shape that succeeds leaves the frame in the record at the cursor and the
\* earlier records as they were: after N successful writes record i holds
\* the i-th frame.
C11_RoundTrip ==
    MultiRecordFile =>
      \A pArray \in Frames(source), junk \in Junk :
        HasSchemaShape(HeldFile, pArray) =>
          LET st == writeFileBody(Start(0), pArray, junk)
          IN st.ret = asynSuccess => HoldsFrame(st, pArray)

\* C11 for the frames that have no more attributes than the table has
\* entries: for them the round trip holds.
C11_RoundTripWithinTable ==
    MultiRecordFile =>
      \A pArray \in Frames(source), junk \in Junk :
        (HasSchemaShape(HeldFile, pArray)
           /\ Len(pArray.attributes) <= Len(pAttributeId.ids)) =>
          LET st == writeFileBody(Start(0), pArray, junk)
          IN st.ret = asynSuccess => HoldsFrame(st, pArray)

\* two frames of unsigned bytes have been written in a row: records 0 and 1
\* hold frame 1 and frame 2, the bytes above 127 read back as negative
C11_Witness ==
    /\ source = "NDUInt8"
    /\ MultiRecordFile
    /\ WroteOk
    /\ nextRecord = 2
    /\ RecordOf(HeldFile, "uniqueId", 0) = <<1>>
    /\ RecordOf(HeldFile, "uniqueId", 1) = <<2>>
    /\ RecordOf(HeldFile, "timeStamp", 1) = <<102>>
    /\ RecordOf(HeldFile, "array_data", 0) = [k \in 1..6 |-> 190 + k - 256]
    /\ RecordOf(HeldFile, "array_data", 1) = [k \in 1..6 |-> 220 + k - 256]

-----------------------------------------------------------------------------
(* C12 *)

\* what a reader gets from a stored text record: the characters before the
\* first one that was never written
TextOf(rec) ==
    LET n == IF \E k \in 1..Len(rec) : rec[k] = NUL
             THEN (CHOOSE k \in 1..Len(rec) :
                     rec[k] = NUL /\ \A j \in 1..(k - 1) : rec[j] # NUL) - 1
             ELSE Len(rec)
    IN SubSeq(rec, 1, n)

\* C12: a writeFile that succeeds writes each string attribute shorter than
\* the cap as a slab of extent (1, length of the string), and the text of the
\* record it wrote reads back as exactly that string.
C12_StringRoundTrip ==
    InDataMode =>
      \A pArray \in Frames(source), junk \in Junk :
        LET st == writeFileBody(Start(0), pArray, junk)
            f == st.nc[st.ncId]
        IN st.ret = asynSuccess =>
             \A i \in 1..Min(Len(pArray.attributes), Len(pAttributeId.ids)) :
               LET a == pArray.attributes[i]
               IN (a.dataType = "NDAttrString" /\ Len(a.value) < MAX_ATTRIBUTE_STRING_SIZE) =>
                    /\ st.calls[3 + i].count = <<1, Len(a.value)>>
                    /\ TextOf(f.data[pAttributeId.ids[i] + 1][nextRecord + 1]) = a.value

-----------------------------------------------------------------------------
(* C13 *)

\* the names of the attribute variables of file f
SchemaAttributes(f) ==
    {f.vars[v].name : v \in 1..Len(f.vars)} \ FrameRecords

\* the frame's dimensions or its attribute set differ from the schema of f
DiffersFromSchema(f, pArray) ==
    \/ ~HasSchemaShape(f, pArray)
    \/ {pArray.attributes[n].name : n \in 1..Len(pArray.attributes)} # SchemaAttributes(f)

\* C13 as stated: writeFile rejects a frame whose dimensions or attribute set
\* differ from the schema fixed at open time.
C13_Validates ==
    InDataMode =>
      \A pArray \in Frames(source), junk \in Junk :
        DiffersFromSchema(HeldFile, pArray) =>
          writeFileBody(Start(0), pArray, junk).ret = asynError

\* C13: writeFile makes no check of the frame against the schema: it issues
\* the slabs of the frame one after the other and returns asynSuccess exactly
\* when no attribute is of undefined type and every library call succeeded,
\* having made one call for each of unique id, timestamp and data and one per
\* attribute, whether or not the frame matches the schema.
C13_NoValidation ==
    \A pArray \in Frames(source), junk \in Junk :
      \A fault \in 0..(3 + Len(pArray.attributes)) :
        LET st == writeFileBody(Start(fault), pArray, junk)
            allOk == \A i \in 1..Len(st.calls) : st.calls[i].rc = NC_NOERR
        IN /\ st.ret = asynSuccess <=>
                (allOk /\ ~HasUndefined(pArray)
                   /\ Len(st.calls) = 3 + Len(pArray.attributes))
           /\ st.ret = asynError <=> ~(allOk /\ ~HasUndefined(pArray))

\* a frame of sizes 1, 3, 4 has been written with success into a file whose
\* schema was fixed by a frame of sizes 2, 3, 4
C13_Witness ==
    /\ source = "shapes"
    /\ InDataMode
    /\ WroteOk
    /\ Tail(AxisLens(HeldFile, arrayDataId + 1)) = <<4, 3, 2>>
    /\ calls[3].varid = arrayDataId
    /\ calls[3].count = <<1, 4, 3, 1>>

-----------------------------------------------------------------------------
(* C14 *)

\* C14: when openFile has returned asynSuccess, every library call it made
\* succeeded, the last of them is nc_enddef and the file is in data mode;
\* when it has returned asynError after the mode checks, no call follows the
\* one that failed, nc_enddef has not succeeded, and the file it created is
\* still in define mode.  Without an outside fault, a successful openFile has
\* made all of its 14 + ndims + 3 * attributes calls.
C14_FailFast ==
    /\ (lastOp = "open" /\ status = asynSuccess) =>
         /\ calls # <<>>
         /\ \A i \in 1..Len(calls) : calls[i].rc = NC_NOERR
         /\ calls[Len(calls)].fn = "nc_enddef"
         /\ InDataMode
    /\ (lastOp = "open" /\ status = asynError /\ calls # <<>>) =>
         /\ \A i \in 1..(Len(calls) - 1) : calls[i].rc = NC_NOERR
         /\ \A i \in 1..Len(calls) : calls[i].fn = "nc_enddef" => calls[i].rc # NC_NOERR
         /\ calls[1].rc = NC_NOERR => (HoldsFile /\ HeldFile.defmode)
    /\ \A fileName \in FileNames, openMode \in OpenModes, pArray \in Frames(source) :
         Accepted(openMode) =>
           LET st == openFileBody(Start(0), fileName, openMode, pArray)
           IN st.ret = asynSuccess =>
                Len(st.calls) = 14 + pArray.ndims + 3 * Len(pArray.attributes)

\* openFile has failed at a definition step after it created the file: the
\* failed call is its last, and the file is left in define mode
C14_Witness ==
    /\ lastOp = "open"
    /\ status = asynError
    /\ Len(calls) > 5
    /\ calls[Len(calls)].rc # NC_NOERR
    /\ calls[Len(calls)].fn = "nc_def_var"
    /\ HoldsFile
    /\ HeldFile.defmode

-----------------------------------------------------------------------------
(* C15 *)

\* C15: a writeFile, whether it returns asynSuccess or asynError, changes no
\* record of the held file other than the one at the index the cursor had
\* when it was called: every other record that existed is as it was, and a
\* record the file gained at another index was written by nobody.
C15_OnlyAtCursor ==
    [][(lastOp' = "write" /\ InDataMode) =>
         /\ ncId' = ncId
         /\ ncId \in DOMAIN nc'
         /\ \A v \in 1..Len(HeldFile.data) :
              \A r \in 1..Len(nc'[ncId].data[v]) :
                r # nextRecord + 1 =>
                  nc'[ncId].data[v][r] =
                    IF r <= Len(HeldFile.data[v]) THEN HeldFile.data[v][r]
                    ELSE EmptyRecord(HeldFile, v)]_vars

\* a write at cursor 1 has failed part of the way: record 1 exists, and
\* record 0 still holds the frame written before
C15_Witness ==
    /\ MultiRecordFile
    /\ lastOp = "write"
    /\ status = asynError
    /\ nextRecord = 1
    /\ HeldFile.numrecs = 2
    /\ RecordOf(HeldFile, "uniqueId", 0) = <<1>>
    /\ RecordOf(HeldFile, "uniqueId", 1) = <<2>>
    /\ RecordOf(HeldFile, "array_data", 0)[1] # NC_FILL

-----------------------------------------------------------------------------
(* C16 *)

\* the table has an entry for every attribute of the frame
WithinTable(pArray) == Len(pArray.attributes) <= Len(pAttributeId.ids)

\* C16: when a writeFile on a held file fails at its j-th library call, the
\* j - 1 calls before it succeeded at the cursor's record index and what they
\* stored is in the file when the call returns (unique id, timestamp, data,
\* in this order), the failed call is the last one made, and the cursor is
\* where it was; the writeFile after a failed one puts every slab at that
\* same index, and when it succeeds the record holds its frame instead.
C16_PartialCommit ==
    InDataMode =>
      /\ \A pArray \in Frames(source), junk \in Junk :
           \A fault \in 0..(3 + Len(pArray.attributes)) :
             LET st == writeFileBody(Start(fault), pArray, junk)
                 f == st.nc[st.ncId]
                 j == Len(st.calls)
             IN (st.ret = asynError /\ j >= 1 /\ st.calls[j].rc # NC_NOERR) =>
                  /\ st.nextRecord = nextRecord
                  /\ \A i \in 1..(j - 1) :
                       st.calls[i].rc = NC_NOERR /\ st.calls[i].start[1] = nextRecord
                  /\ (j >= 2 /\ WithinTable(pArray)) =>
                       RecordOf(f, "uniqueId", nextRecord) = <<pArray.uniqueId>>
                  /\ (j >= 3 /\ WithinTable(pArray)) =>
                       RecordOf(f, "timeStamp", nextRecord) = <<pArray.timeStamp>>
                  /\ (j >= 4 /\ WithinTable(pArray) /\ HasSchemaShape(HeldFile, pArray)) =>
                       RecordOf(f, "array_data", nextRecord) =
                         [k \in 1..Len(pArray.pData) |->
                            SameBytes(pArray.dataType, pArray.pData[k])]
      /\ (lastOp = "write" /\ status = asynError /\ calls # <<>>) =>
           /\ calls[1].start[1] = nextRecord
           /\ \A pArray \in Frames(source), junk \in Junk :
                LET st == writeFileBody(Start(0), pArray, junk)
                IN /\ \A i \in 1..Len(st.calls) : st.calls[i].start[1] = nextRecord
                   /\ (st.ret = asynSuccess /\ WithinTable(pArray)) =>
                        /\ RecordOf(st.nc[st.ncId], "uniqueId", nextRecord) = <<pArray.uniqueId>>
                        /\ RecordOf(st.nc[st.ncId], "timeStamp", nextRecord) = <<pArray.timeStamp>>

\* a writeFile has failed at its third library call, the data slab: unique
\* id and timestamp of the frame are in record 0, its data is not, and the
\* cursor is still 0
C16_Witness ==
    /\ MultiRecordFile
    /\ lastOp = "write"
    /\ status = asynError
    /\ nextRecord = 0
    /\ Len(calls) = 3
    /\ calls[3].rc # NC_NOERR
    /\ HeldFile.numrecs = 1
    /\ RecordOf(HeldFile, "uniqueId", 0) = <<1>>
    /\ RecordOf(HeldFile, "timeStamp", 0) = <<101>>
    /\ \A k \in 1..Len(RecordOf(HeldFile, "array_data", 0)) :
         RecordOf(HeldFile, "array_data", 0)[k] = NC_FILL

-----------------------------------------------------------------------------
(* C17 *)

Zeros(n) == [i \in 1..n |-> 0]

\* C17: in every state, whatever file is held, the slabs writeFile issues for
\* unique id, timestamp, data and every numeric attribute have start
\* (cursor, 0, ..., 0) and extent (1, s(N-1), ..., s0) for the sizes
\* s0 .. s(N-1) of the incoming frame; when the frame has the shape of the
\* frame used at open, the extent after its first entry equals the lengths
\* of the axes of array_data after the record axis, and counts as many cells
\* as the frame's buffer has elements.
C17_SlabFromFrame ==
    \A pArray \in Frames(source), junk \in Junk :
      LET st == writeFileBody(Start(0), pArray, junk)
      IN /\ \A i \in 1..Len(st.calls) :
              (i <= 3 \/ pArray.attributes[i - 3].dataType # "NDAttrString") =>
                /\ st.calls[i].start = <<nextRecord>> \o Zeros(pArray.ndims)
                /\ st.calls[i].count = <<1>> \o Reversed(Sizes(pArray))
         /\ (InDataMode /\ HasSchemaShape(HeldFile, pArray) /\ Len(st.calls) >= 3) =>
              /\ st.calls[3].varid = arrayDataId
              /\ Tail(st.calls[3].count) = Tail(AxisLens(HeldFile, arrayDataId + 1))
              /\ Prod(st.calls[3].count) = Len(pArray.pData)

\* a frame of sizes 2, 3, 4 has been written at cursor 1 into the file it
\* opened: the data slab started at (1, 0, 0, 0) with extent (1, 4, 3, 2)
C17_Witness ==
    /\ source = "shapes"
    /\ MultiRecordFile
    /\ WroteOk
    /\ nextRecord = 2
    /\ calls[3].varid = arrayDataId
    /\ calls[3].start = <<1, 0, 0, 0>>
    /\ calls[3].count = <<1, 4, 3, 2>>
    /\ AxisLens(HeldFile, arrayDataId + 1) = <<NC_UNLIMITED, 4, 3, 2>>

-----------------------------------------------------------------------------
(* C18 *)

\* C18: a successful openFile leaves the global attributes dimSize,
\* dimOffset, dimBinning and dimReverse with entry i describing dimension i
\* of the frame, in the frame's own order; dimSize is then the reverse of the
\* lengths of the axes of array_data after the record axis, and differs from
\* them unless the sizes read the same in both directions.
C18_DimSizeOrder ==
    \A fileName \in FileNames, openMode \in OpenModes, pArray \in Frames(source) :
      Accepted(openMode) =>
        LET st == openFileBody(Start(0), fileName, openMode, pArray)
        IN st.ret = asynSuccess =>
             LET f == st.nc[st.ncId]
                 axes == Tail(AxisLens(f, st.arrayDataId + 1))
                 N == 1..pArray.ndims
             IN /\ GlobalAtt(f, "dimSize") = [i \in N |-> pArray.dims[i].size]
                /\ GlobalAtt(f, "dimOffset") = [i \in N |-> pArray.dims[i].offset]
                /\ GlobalAtt(f, "dimBinning") = [i \in N |-> pArray.dims[i].binning]
                /\ GlobalAtt(f, "dimReverse") = [i \in N |-> pArray.dims[i].reverse]
                /\ GlobalAtt(f, "dimSize") = Reversed(axes)
                /\ Sizes(pArray) # Reversed(Sizes(pArray)) => GlobalAtt(f, "dimSize") # axes

\* a frame of sizes 2, 3, 4 has been opened: dimSize is (2, 3, 4) while the
\* axes of array_data after the record axis are (4, 3, 2)
C18_Witness ==
    /\ source = "shapes"
    /\ lastOp = "open"
    /\ status = asynSuccess
    /\ InDataMode
    /\ GlobalAtt(HeldFile, "dimSize") = <<2, 3, 4>>
    /\ GlobalAtt(HeldFile, "dimOffset") = <<10, 20, 30>>
    /\ Tail(AxisLens(HeldFile, arrayDataId + 1)) = <<4, 3, 2>>

-----------------------------------------------------------------------------
(* C19 *)

\* C19: an openFile refused for its mode returns with the cursor, the file
\* handle, the variable ids, the attribute-id table and the library's files
\* as they were; every other openFile, whether it succeeds or fails at
\* nc_create, at the call after it or at its last call, returns with the
\* cursor at 0.
C19_RejectedOpen ==
    \A fileName \in FileNames, openMode \in OpenModes, pArray \in Frames(source) :
      IF Accepted(openMode)
      THEN \A fault \in {0, 1, 2, MaxOpenCalls(openMode, pArray)} :
             LET st == openFileBody(Start(fault), fileName, openMode, pArray)
             IN st.nextRecord = 0 /\ st.calls # <<>>
      ELSE LET st == openFileBody(Start(0), fileName, openMode, pArray)
           IN /\ st.nextRecord = nextRecord
              /\ st.ncId = ncId
              /\ st.pAttributeId = pAttributeId
              /\ <<st.uniqueIdId, st.timeStampId, st.arrayDataId>> =
                   <<uniqueIdId, timeStampId, arrayDataId>>
              /\ st.nc = nc
              /\ st.calls = <<>>

\* an openFile has failed at nc_create while a file with a written record
\* was held: the cursor is back at 0 under the same file
C19_Witness ==
    /\ lastOp = "open"
    /\ status = asynError
    /\ Len(calls) = 1
    /\ calls[1].fn = "nc_create"
    /\ calls[1].rc # NC_NOERR
    /\ nextRecord = 0
    /\ InDataMode
    /\ HeldFile.numrecs >= 1
    /\ RecordOf(HeldFile, "uniqueId", 0) # <<NC_FILL>>

-----------------------------------------------------------------------------
(* C20 *)

\* C20: when openFile has failed after nc_create succeeded, the file it
\* created is open in the library under the handle the object stores, and
\* openFile made no nc_close; a file leaves the library's table only in a
\* closeFile that succeeds, and it is the one whose handle is stored; an
\* openFile that creates a file while another is held stores the new handle
\* and leaves the earlier file open, and a file whose handle was replaced
\* stays open from then on.
C20_FailedOpenLeaks ==
    [][/\ (lastOp' = "open" /\ status' = asynError /\ calls' # <<>>
             /\ calls'[1].rc = NC_NOERR) =>
            /\ ncId' \in DOMAIN nc'
            /\ nc'[ncId'] # LostFile
            /\ \A i \in 1..Len(calls') : calls'[i].fn # "nc_close"
       /\ DOMAIN nc' # DOMAIN nc =>
            \/ /\ lastOp' = "close"
               /\ status' = asynSuccess
               /\ ncId \in DOMAIN nc
               /\ DOMAIN nc' = DOMAIN nc \ {ncId}
            \/ /\ lastOp' = "open"
               /\ calls'[1].rc = NC_NOERR
               /\ ncId' \notin DOMAIN nc
               /\ DOMAIN nc' = DOMAIN nc \cup {ncId'}
               /\ HoldsFile => nc'[ncId] = LostFile
       /\ \A i \in DOMAIN nc :
            nc[i] = LostFile => (i \in DOMAIN nc' /\ nc'[i] = LostFile)]_vars

\* openFile has failed after creating a file while the file of an earlier
\* openFile was held: the new file is open in define mode under the stored
\* handle, and the earlier one is open with no handle left
C20_Witness ==
    /\ lastOp = "open"
    /\ status = asynError
    /\ calls # <<>>
    /\ calls[1].rc = NC_NOERR
    /\ HoldsFile
    /\ HeldFile.defmode
    /\ \E i \in DOMAIN nc : i # ncId /\ nc[i] = LostFile

====
